---- MODULE Spec2Model ----
(***************************************************************************)
(* Toolchain resolution of substrate/utils/wasm-builder (src/lib.rs):      *)
(* get_cargo_command, get_rustup_command and CargoCommand.                 *)
(*                                                                         *)
(* Option<T> is a sequence of length at most one: None is <<>> and         *)
(* Some(x) is <<x>>.                                                       *)
(***************************************************************************)
EXTENDS Integers, Sequences, FiniteSets, TLC

VARIABLES
    pc,            \* position of the running function
    env,           \* the process environment: CARGO, WASM_BUILD_TOOLCHAIN, RUSTC_BOOTSTRAP
    target,        \* the RuntimeTarget argument
    env_cargo,     \* Option<CargoCommand>: local of get_cargo_command
    default_cargo, \* Option<CargoCommand>: local of get_cargo_command
    result,        \* Option<CargoCommand>: value returned by get_cargo_command
    listed,        \* `rustup toolchain list`: "not_run", "failed" (no launch) or "listed"
    lines,         \* lines of the `rustup toolchain list` output
    idx,           \* position of the for loop of get_rustup_command in lines
    versions,      \* the Vec `versions` of get_rustup_command
    rustup_ret,    \* Option<CargoCommand>: value returned by get_rustup_command
    cmd,           \* the CargoCommand a capability predicate is called on
    supported,     \* Option<bool>: value returned by supports_substrate_runtime_env
    proc_version,  \* outcome of the `--version` child process
    proc_targets   \* outcome of the `--print target-list` child process

vars == <<pc, env, target, env_cargo, default_cargo, result, listed, lines, idx,
          versions, rustup_ret, cmd, supported, proc_version, proc_targets>>

None == <<>>

Some(x) == <<x>>

Unwrap(o) == o[1]

(***************************************************************************)
(* Bounds of the model.                                                    *)
(***************************************************************************)
MaxToolchains == 3

(***************************************************************************)
(* RuntimeTarget and its target triple.                                    *)
(***************************************************************************)
RuntimeTarget == {"Wasm", "Riscv"}

rustc_target(t) ==
    IF t = "Wasm" THEN "wasm32-unknown-unknown" ELSE "riscv32ema-unknown-none-elf"

(***************************************************************************)
(* version::Version.  The fields read by lib.rs are major, minor and       *)
(* is_nightly; versions are compared by sort_by_key in get_rustup_command, *)
(* whose documentation states the order: a stable version is above every   *)
(* nightly version, "even if the nightly versions are newer"; within one   *)
(* class the newest (greatest triple) is last.                             *)
(***************************************************************************)
Version(ma, mi, pa, n) == [major |-> ma, minor |-> mi, patch |-> pa, is_nightly |-> n]

TripleLess(a, b) ==
    \/ a.major < b.major
    \/ a.major = b.major /\ a.minor < b.minor
    \/ a.major = b.major /\ a.minor = b.minor /\ a.patch < b.patch

Version_cmp_numeric(a, b) ==
    IF TripleLess(a, b) THEN "Less"
    ELSE IF TripleLess(b, a) THEN "Greater"
    ELSE "Equal"

Version_cmp(a, b) ==
    IF a = b THEN "Equal"
    ELSE IF ~a.is_nightly /\ b.is_nightly THEN "Greater"
    ELSE IF a.is_nightly /\ ~b.is_nightly THEN "Less"
    ELSE IF TripleLess(a, b) THEN "Less"
    ELSE IF TripleLess(b, a) THEN "Greater"
    ELSE "Equal"

(***************************************************************************)
(* Text printed by `cargo --version`: a sequence of tokens, each either a  *)
(* word or a MAJOR.MINOR.PATCH pattern with its nightly marker.            *)
(***************************************************************************)
Word == [triple |-> <<>>, nightly |-> FALSE]

VersionToken(v) == [triple |-> <<v.major, v.minor, v.patch>>, nightly |-> v.is_nightly]

VersionText(v) == <<Word, VersionToken(v), Word>>

RECURSIVE Version_extract(_)
Version_extract(text) ==
    IF text = <<>> THEN None
    ELSE IF Len(Head(text).triple) = 3
         THEN Some(Version(Head(text).triple[1], Head(text).triple[2],
                           Head(text).triple[3], Head(text).nightly))
         ELSE Version_extract(Tail(text))

(***************************************************************************)
(* Outcome of running a child process with Command::output().              *)
(***************************************************************************)
LaunchFailure == [launched |-> FALSE, status |-> 0, utf8 |-> FALSE, stdout |-> <<>>]

Exited(st, u, out) == [launched |-> TRUE, status |-> st, utf8 |-> u, stdout |-> out]

(* .output().ok().and_then(|o| String::from_utf8(o.stdout).ok()) *)
output_stdout_utf8(p) ==
    IF ~p.launched THEN None
    ELSE IF ~p.utf8 THEN None
    ELSE Some(p.stdout)

extract_version(p) ==
    IF output_stdout_utf8(p) = None THEN None
    ELSE Version_extract(Unwrap(output_stdout_utf8(p)))

(***************************************************************************)
(* Text printed by `--print target-list`: a sequence of tokens, each a     *)
(* newline, a blank or a run of other characters.                          *)
(***************************************************************************)
IsWhitespace(tok) == tok \in {"\n", " "}

RECURSIVE trim_start(_)
trim_start(s) ==
    IF s = <<>> THEN <<>>
    ELSE IF IsWhitespace(Head(s)) THEN trim_start(Tail(s))
    ELSE s

RECURSIVE trim_end(_)
trim_end(s) ==
    IF s = <<>> THEN <<>>
    ELSE IF IsWhitespace(s[Len(s)]) THEN trim_end(SubSeq(s, 1, Len(s) - 1))
    ELSE s

trim(s) == trim_end(trim_start(s))

(* str::split("\n"): the pieces between newlines; one piece for a text     *)
(* holding no newline, the empty text included.                            *)
RECURSIVE split_newline(_, _)
split_newline(s, piece) ==
    IF s = <<>> THEN <<piece>>
    ELSE IF Head(s) = "\n" THEN <<piece>> \o split_newline(Tail(s), <<>>)
    ELSE split_newline(Tail(s), Append(piece, Head(s)))

Range(s) == {s[i] : i \in 1..Len(s)}

extract_target_list_no_launch_check(p) ==
    IF p.launched /\ ~p.utf8 THEN None
    ELSE Some(Range(split_newline(trim(p.stdout), <<>>)))

extract_target_list(p) ==
    IF output_stdout_utf8(p) = None THEN None
    ELSE Some(Range(split_newline(trim(Unwrap(output_stdout_utf8(p))), <<>>)))

(***************************************************************************)
(* CargoCommand.                                                           *)
(***************************************************************************)
CargoCommand(program, args, version, target_list) ==
    [program |-> program, args |-> args, version |-> version, target_list |-> target_list]

CargoCommand_new(program, pv, pt) ==
    CargoCommand(program, <<>>, extract_version(pv), extract_target_list(pt))

CargoCommand_new_with_args(program, args, pv, pt) ==
    CargoCommand(program, args, extract_version(pv), extract_target_list(pt))

MinMajor == 1

MinMinor == 68

RiscvTriple == <<"riscv32ema-unknown-none-elf">>

supports_riscv_absent_true(c) ==
    IF c.target_list = None THEN TRUE
    ELSE RiscvTriple \in Unwrap(c.target_list)

supports_substrate_runtime_env_riscv(c) ==
    IF c.target_list = None THEN FALSE
    ELSE RiscvTriple \in Unwrap(c.target_list)

supports_wasm_strict_minor(c, bootstrap) ==
    IF bootstrap THEN TRUE
    ELSE IF c.version = None THEN FALSE
    ELSE LET version == Unwrap(c.version) IN
         \/ version.major > MinMajor
         \/ version.major = MinMajor /\ version.minor > MinMinor
         \/ version.is_nightly

supports_substrate_runtime_env_wasm(c, bootstrap) ==
    IF bootstrap THEN TRUE
    ELSE IF c.version = None THEN FALSE
    ELSE LET version == Unwrap(c.version) IN
         \/ version.major > MinMajor
         \/ version.major = MinMajor /\ version.minor >= MinMinor
         \/ version.is_nightly

supports_substrate_runtime_env(c, t, bootstrap) ==
    IF t = "Wasm" THEN supports_substrate_runtime_env_wasm(c, bootstrap)
    ELSE supports_substrate_runtime_env_riscv(c)

(***************************************************************************)
(* The process environment read with env::var.  A variable that is unset   *)
(* or not unicode reads as None.                                           *)
(***************************************************************************)
Environments ==
    [CARGO : {None, Some("/toolchain/bin/cargo")},
     WASM_BUILD_TOOLCHAIN : {None, Some("nightly-2020-02-20")},
     RUSTC_BOOTSTRAP : BOOLEAN]

(***************************************************************************)
(* Child-process outcomes the resolver is run against.                     *)
(***************************************************************************)
V_1_65_0 == Version(1, 65, 0, FALSE)

V_1_66_0 == Version(1, 66, 0, FALSE)

V_1_68_0 == Version(1, 68, 0, FALSE)

V_1_70_0_nightly == Version(1, 70, 0, TRUE)

PrintsVersion(v) == Exited(0, TRUE, VersionText(v))

WasmOnlyTargets == Exited(0, TRUE, <<"wasm32-unknown-unknown", "\n">>)

WasmAndRiscvTargets ==
    Exited(0, TRUE, <<"wasm32-unknown-unknown", "\n", "riscv32ema-unknown-none-elf", "\n">>)

RiscvTargets == Exited(0, TRUE, <<"riscv32ema-unknown-none-elf", "\n">>)

Probe(pv, pt) == [pv |-> pv, pt |-> pt]

CargoProbes ==
    {Probe(LaunchFailure, LaunchFailure),
     Probe(PrintsVersion(V_1_65_0), WasmOnlyTargets),
     Probe(PrintsVersion(V_1_68_0), Exited(1, TRUE, <<>>)),
     Probe(PrintsVersion(V_1_70_0_nightly), WasmAndRiscvTargets)}

ToolchainProbes ==
    {Probe(PrintsVersion(V_1_66_0), WasmOnlyTargets),
     Probe(PrintsVersion(V_1_68_0), WasmOnlyTargets),
     Probe(PrintsVersion(V_1_70_0_nightly), WasmAndRiscvTargets),
     Probe(Exited(1, TRUE, <<>>), RiscvTargets),
     Probe(PrintsVersion(V_1_68_0), WasmAndRiscvTargets)}

(***************************************************************************)
(* Output of `rustup toolchain list`.  A line is a sequence of fields      *)
(* separated by one blank; with it goes what the two probes of             *)
(* `rustup run <first field> cargo` meet.                                  *)
(***************************************************************************)
ToolchainName(i) ==
    CASE i = 1 -> "toolchain-1"
      [] i = 2 -> "toolchain-2"
      [] i = 3 -> "toolchain-3"
      [] i = 4 -> "toolchain-4"
      [] OTHER -> "toolchain-5"

ListingItems ==
    {[kind |-> "invalid", probe |-> Probe(LaunchFailure, LaunchFailure)],
     [kind |-> "empty", probe |-> Probe(LaunchFailure, LaunchFailure)]}
    \cup {[kind |-> IF p.pv = PrintsVersion(V_1_68_0) /\ p.pt = WasmOnlyTargets
                    THEN "default" ELSE "plain",
           probe |-> p] : p \in ToolchainProbes}

Line(i, item) ==
    [utf8 |-> item.kind # "invalid",
     fields |-> CASE item.kind = "plain" -> <<ToolchainName(i)>>
                  [] item.kind = "default" -> <<ToolchainName(i), "(default)">>
                  [] OTHER -> <<>>,
     probe |-> item.probe]

Listings ==
    UNION {{[i \in 1..n |-> Line(i, f[i])] : f \in [1..n -> ListingItems]} :
           n \in 0..MaxToolchains}

ToolchainListOutcomes ==
    {[launched |-> FALSE, lines |-> <<>>]} \cup {[launched |-> TRUE, lines |-> l] : l \in Listings}

split_skipping_empty(line) == line.fields

(* line.split(" "): the fields; one empty field for the empty line *)
split_blank(line) == IF line.fields = <<>> THEN <<"">> ELSE line.fields

(* Iterator::next *)
next(s) == IF s = <<>> THEN None ELSE Some(Head(s))

(* the probes `rustup run <id> cargo` meets *)
ProbeOf(ls, id) ==
    IF \E i \in 1..Len(ls) : ls[i].utf8 /\ Head(split_blank(ls[i])) = id
    THEN (CHOOSE l \in Range(ls) : l.utf8 /\ Head(split_blank(l)) = id).probe
    ELSE Probe(LaunchFailure, LaunchFailure)

RustupRun(id, p) == CargoCommand_new_with_args("rustup", <<"run", id, "cargo">>, p.pv, p.pt)

(***************************************************************************)
(* get_rustup_command                                                      *)
(***************************************************************************)
(* the two `continue`s of the loop body: whether the line's command is pushed *)
pushes_version_unchecked(c, t, bootstrap) == c.version # None

pushes_version(c, t, bootstrap) ==
    /\ supports_substrate_runtime_env(c, t, bootstrap)
    /\ c.version # None

(* slice::sort_by_key, a stable sort: an element goes after those not      *)
(* greater than it                                                         *)
RECURSIVE insert_before_equal(_, _)
insert_before_equal(sorted, e) ==
    IF sorted = <<>> THEN <<e>>
    ELSE IF Version_cmp(sorted[Len(sorted)][1], e[1]) \in {"Greater", "Equal"}
         THEN Append(insert_before_equal(SubSeq(sorted, 1, Len(sorted) - 1), e),
                     sorted[Len(sorted)])
         ELSE Append(sorted, e)

RECURSIVE insert_sorted(_, _)
insert_sorted(sorted, e) ==
    IF sorted = <<>> THEN <<e>>
    ELSE IF Version_cmp(sorted[Len(sorted)][1], e[1]) = "Greater"
         THEN Append(insert_sorted(SubSeq(sorted, 1, Len(sorted) - 1), e), sorted[Len(sorted)])
         ELSE Append(sorted, e)

RECURSIVE sort_from(_, _)
sort_from(sorted, rest) ==
    IF rest = <<>> THEN sorted
    ELSE sort_from(insert_sorted(sorted, Head(rest)), Tail(rest))

sort_by_key(v) == sort_from(<<>>, v)

last(v) == IF v = <<>> THEN None ELSE Some(v[Len(v)])

(***************************************************************************)
(* get_cargo_command                                                       *)
(***************************************************************************)
branch_env_first(wasm_toolchain, env_supports, default_supports) ==
    IF env_supports THEN "env_cargo"
    ELSE IF wasm_toolchain # None THEN "pinned"
    ELSE IF default_supports THEN "default_cargo"
    ELSE "rustup"

branch_default_first(wasm_toolchain, env_supports, default_supports) ==
    IF wasm_toolchain # None THEN "pinned"
    ELSE IF default_supports THEN "default_cargo"
    ELSE IF env_supports THEN "env_cargo"
    ELSE "rustup"

(* the if / else-if chain: which arm is taken *)
branch(wasm_toolchain, env_supports, default_supports) ==
    IF wasm_toolchain # None THEN "pinned"
    ELSE IF env_supports THEN "env_cargo"
    ELSE IF default_supports THEN "default_cargo"
    ELSE "rustup"

(* Option::unwrap_or *)
unwrap_or_none(o, d) == o

unwrap_or(o, d) == IF o = None THEN Some(d) ELSE o

(***************************************************************************)
(* The resolver as a state machine: one call of get_cargo_command(target). *)
(***************************************************************************)
NoCommandCall ==
    /\ cmd = None
    /\ supported = None
    /\ proc_version = None
    /\ proc_targets = None

Init ==
    /\ pc = "start"
    /\ env \in Environments
    /\ target \in RuntimeTarget
    /\ env_cargo = None
    /\ default_cargo = None
    /\ result = None
    /\ listed = "not_run"
    /\ lines = <<>>
    /\ idx = 0
    /\ versions = <<>>
    /\ rustup_ret = None
    /\ NoCommandCall

Bootstrap == env.RUSTC_BOOTSTRAP

Taken ==
    branch(env.WASM_BUILD_TOOLCHAIN,
           supports_substrate_runtime_env(Unwrap(env_cargo), target, Bootstrap),
           supports_substrate_runtime_env(Unwrap(default_cargo), target, Bootstrap))

(* line 189-190: env::var("CARGO").expect(..) on an unset variable *)
ExpectCargoPanics ==
    /\ pc = "start"
    /\ env.CARGO = None
    /\ pc' = "panic"
    /\ UNCHANGED <<env, target, env_cargo, default_cargo, result, listed, lines, idx,
                   versions, rustup_ret, cmd, supported, proc_version, proc_targets>>

(* line 189-190: CargoCommand::new(&env::var("CARGO")..) *)
NewEnvCargo ==
    /\ pc = "start"
    /\ env.CARGO # None
    /\ \E p \in CargoProbes :
           env_cargo' = Some(CargoCommand_new(Unwrap(env.CARGO), p.pv, p.pt))
    /\ pc' = "env_cargo"
    /\ UNCHANGED <<env, target, default_cargo, result, listed, lines, idx,
                   versions, rustup_ret, cmd, supported, proc_version, proc_targets>>

(* line 191: CargoCommand::new("cargo") *)
NewDefaultCargo ==
    /\ pc = "env_cargo"
    /\ \E p \in CargoProbes :
           default_cargo' = Some(CargoCommand_new("cargo", p.pv, p.pt))
    /\ pc' = "select"
    /\ UNCHANGED <<env, target, env_cargo, result, listed, lines, idx,
                   versions, rustup_ret, cmd, supported, proc_version, proc_targets>>

(* lines 192-198: the pinned toolchain is probed and returned *)
ReturnPinned ==
    /\ pc = "select"
    /\ Taken = "pinned"
    /\ \E p \in ToolchainProbes \cup {Probe(LaunchFailure, LaunchFailure)} :
           result' = Some(RustupRun(Unwrap(env.WASM_BUILD_TOOLCHAIN), p))
    /\ pc' = "done"
    /\ UNCHANGED <<env, target, env_cargo, default_cargo, listed, lines, idx,
                   versions, rustup_ret, cmd, supported, proc_version, proc_targets>>

(* lines 199-200 *)
ReturnEnvCargo ==
    /\ pc = "select"
    /\ Taken = "env_cargo"
    /\ result' = env_cargo
    /\ pc' = "done"
    /\ UNCHANGED <<env, target, env_cargo, default_cargo, listed, lines, idx,
                   versions, rustup_ret, cmd, supported, proc_version, proc_targets>>

(* lines 201-202 *)
ReturnDefaultCargo ==
    /\ pc = "select"
    /\ Taken = "default_cargo"
    /\ result' = default_cargo
    /\ pc' = "done"
    /\ UNCHANGED <<env, target, env_cargo, default_cargo, listed, lines, idx,
                   versions, rustup_ret, cmd, supported, proc_version, proc_targets>>

(* lines 207, 216-219: get_rustup_command is entered and runs             *)
(* `rustup toolchain list`; `.output().ok()?` returns None when the        *)
(* process cannot be launched                                              *)
ToolchainList ==
    /\ pc = "select"
    /\ Taken = "rustup"
    /\ \E o \in ToolchainListOutcomes :
           IF o.launched
           THEN /\ listed' = "listed"
                /\ lines' = o.lines
                /\ idx' = 1
                /\ pc' = "rustup_loop"
           ELSE /\ listed' = "failed"
                /\ lines' = <<>>
                /\ idx' = 0
                /\ pc' = "rustup_returned"
    /\ versions' = <<>>
    /\ rustup_ret' = None
    /\ UNCHANGED <<env, target, env_cargo, default_cargo, result,
                   cmd, supported, proc_version, proc_targets>>

(* lines 220-232: one iteration of the for loop; lines that are not utf8   *)
(* are dropped by filter_map(|l| l.ok())                                   *)
ToolchainLine ==
    /\ pc = "rustup_loop"
    /\ idx <= Len(lines)
    /\ LET line == lines[idx]
           field == next(split_blank(line))
       IN IF ~line.utf8
          THEN /\ versions' = versions
               /\ pc' = pc
               /\ idx' = idx + 1
          ELSE IF field = None
          THEN /\ versions' = versions
               /\ pc' = "panic"
               /\ idx' = idx
          ELSE LET rustup_version == Unwrap(field)
                   c == RustupRun(rustup_version, line.probe)
               IN /\ versions' =
                         IF pushes_version(c, target, Bootstrap)
                         THEN Append(versions, <<Unwrap(c.version), rustup_version>>)
                         ELSE versions
                  /\ pc' = pc
                  /\ idx' = idx + 1
    /\ UNCHANGED <<env, target, env_cargo, default_cargo, result, listed, lines,
                   rustup_ret, cmd, supported, proc_version, proc_targets>>

(* the element of `versions` that lines 236-237 select *)
newest(v) == last(sort_by_key(v))

(* lines 236-239: sort, take the last, probe it again and return it *)
ToolchainNewest ==
    /\ pc = "rustup_loop"
    /\ idx > Len(lines)
    /\ rustup_ret' =
           IF newest(versions) = None THEN None
           ELSE LET version == Unwrap(newest(versions))[2]
                IN Some(RustupRun(version, ProbeOf(lines, version)))
    /\ pc' = "rustup_returned"
    /\ UNCHANGED <<env, target, env_cargo, default_cargo, result, listed, lines, idx,
                   versions, cmd, supported, proc_version, proc_targets>>

(* line 207: get_rustup_command(target).unwrap_or(default_cargo) *)
ReturnRustupOrDefault ==
    /\ pc = "rustup_returned"
    /\ result' = unwrap_or(rustup_ret, Unwrap(default_cargo))
    /\ pc' = "done"
    /\ UNCHANGED <<env, target, env_cargo, default_cargo, listed, lines, idx,
                   versions, rustup_ret, cmd, supported, proc_version, proc_targets>>

Next ==
    \/ ExpectCargoPanics
    \/ NewEnvCargo
    \/ NewDefaultCargo
    \/ ReturnPinned
    \/ ReturnEnvCargo
    \/ ReturnDefaultCargo
    \/ ToolchainList
    \/ ToolchainLine
    \/ ToolchainNewest
    \/ ReturnRustupOrDefault

Spec == Init /\ [][Next]_vars

(***************************************************************************)
(* CargoCommand on its own: CargoCommand::new over every outcome of the    *)
(* two child processes, then supports_substrate_runtime_env.               *)
(***************************************************************************)
MaxMajor == 2

MaxPatch == 1

ProbedVersions ==
    {Version(ma, mi, pa, n) :
        ma \in 0..MaxMajor, mi \in {60, 67, 68, 70}, pa \in 0..MaxPatch, n \in BOOLEAN}

VersionTexts == {<<>>, <<Word>>} \cup {VersionText(v) : v \in ProbedVersions}

TargetListTexts ==
    {<<>>,
     <<"wasm32-unknown-unknown", "\n">>,
     <<"wasm32-unknown-unknown", "\n", "riscv32ema-unknown-none-elf", "\n">>,
     <<" ", "riscv32ema-unknown-none-elf">>,
     <<"riscv32ema-unknown-none-elf", " ", "\n", "wasm32-unknown-unknown">>,
     <<"riscv32ema-unknown-none-elf", "-2", "\n">>,
     <<"riscv32ema-unknown-none", "\n", "riscv32ema-unknown-none-elf-2">>,
     <<"\n", "\n">>}

Outcomes(texts) ==
    {LaunchFailure}
    \cup {Exited(st, FALSE, <<>>) : st \in {0, 1}}
    \cup {Exited(st, TRUE, t) : st \in {0, 1}, t \in texts}

InitCommand ==
    /\ pc = "command_new"
    /\ env \in {e \in Environments : e.CARGO # None /\ e.WASM_BUILD_TOOLCHAIN = None}
    /\ target \in RuntimeTarget
    /\ env_cargo = None
    /\ default_cargo = None
    /\ result = None
    /\ listed = "not_run"
    /\ lines = <<>>
    /\ idx = 0
    /\ versions = <<>>
    /\ rustup_ret = None
    /\ NoCommandCall

(* lines 252-257: CargoCommand::new runs both probes *)
NewCommand ==
    /\ pc = "command_new"
    /\ \E pv \in Outcomes(VersionTexts), pt \in Outcomes(TargetListTexts) :
           /\ proc_version' = Some(pv)
           /\ proc_targets' = Some(pt)
           /\ cmd' = Some(CargoCommand_new("cargo", pv, pt))
    /\ pc' = "command_built"
    /\ UNCHANGED <<env, target, env_cargo, default_cargo, result, listed, lines, idx,
                   versions, rustup_ret, supported>>

(* lines 317-322: cmd.supports_substrate_runtime_env(target) *)
Supports ==
    /\ pc = "command_built"
    /\ supported' = Some(supports_substrate_runtime_env(Unwrap(cmd), target, Bootstrap))
    /\ pc' = "supports_returned"
    /\ UNCHANGED <<env, target, env_cargo, default_cargo, result, listed, lines, idx,
                   versions, rustup_ret, cmd, proc_version, proc_targets>>

NextCommand == NewCommand \/ Supports

SpecCommand == InitCommand /\ [][NextCommand]_vars

(***************************************************************************)
(* Properties.                                                             *)
(***************************************************************************)
Selecting == pc \in {"select", "rustup_loop", "rustup_returned", "done"}

Unpinned == env.WASM_BUILD_TOOLCHAIN = None

EnvSupports == supports_substrate_runtime_env(Unwrap(env_cargo), target, Bootstrap)

DefaultSupports == supports_substrate_runtime_env(Unwrap(default_cargo), target, Bootstrap)

IsRustupRun(c, id) == c.program = "rustup" /\ c.args = <<"run", id, "cargo">>

(* the command built for the toolchain of line i *)
LineCommand(i) ==
    CargoCommand("rustup",
                 <<"run", IF lines[i].fields = <<>> THEN "" ELSE lines[i].fields[1], "cargo">>,
                 extract_version(lines[i].probe.pv),
                 extract_target_list(lines[i].probe.pt))

Listed == {i \in 1..Len(lines) : lines[i].utf8}

Supporting ==
    {i \in Listed : supports_substrate_runtime_env(LineCommand(i), target, Bootstrap)}

Qualifying == {i \in Supporting : LineCommand(i).version # None}

LineVersion(i) == Unwrap(LineCommand(i).version)

(* the lines whose toolchain get_rustup_command returned *)
Returned ==
    IF rustup_ret = None THEN {}
    ELSE {i \in Listed : LineCommand(i).args = Unwrap(rustup_ret).args}

RustupReturned == pc \in {"rustup_returned", "done"} /\ listed # "not_run"

(* C1: with WASM_BUILD_TOOLCHAIN set to t the call returns `rustup run t   *)
(* cargo`, whatever the probes of any candidate gave and whether or not    *)
(* the CARGO or the default cargo supports the target; `rustup toolchain   *)
(* list` is never run and, CARGO being set, the call does not panic.       *)
C1_PinnedIsReturned ==
    ~Unpinned =>
        /\ pc = "done" =>
              /\ result # None
              /\ IsRustupRun(Unwrap(result), Unwrap(env.WASM_BUILD_TOOLCHAIN))
        /\ listed = "not_run"
        /\ pc \in {"start", "env_cargo", "select", "done", "panic"}
        /\ env.CARGO # None => pc # "panic"

C1_Witness ==
    /\ pc = "done"
    /\ ~Unpinned
    /\ EnvSupports
    /\ DefaultSupports
    /\ IsRustupRun(Unwrap(result), Unwrap(env.WASM_BUILD_TOOLCHAIN))
    /\ Unwrap(result).version = None
    /\ Unwrap(result).target_list = None

(* C2, as claimed: with no pin, when neither the CARGO cargo, the default  *)
(* cargo nor any listed toolchain supports the target (or the listing      *)
(* fails), the resolver returns an absent value.                           *)
C2_AbsentResult ==
    (pc = "done" /\ Unpinned /\ ~EnvSupports /\ ~DefaultSupports /\ Supporting = {})
        => result = None

(* C2, amended: in that case get_rustup_command returns None and           *)
(* get_cargo_command returns the default `cargo` command, which does not   *)
(* support the target.                                                     *)
C2_DefaultCargoReturned ==
    (pc = "done" /\ Unpinned /\ ~EnvSupports /\ ~DefaultSupports /\ Supporting = {})
        => /\ rustup_ret = None
           /\ result = default_cargo
           /\ Unwrap(result).program = "cargo"
           /\ Unwrap(result).args = <<>>

C2_Witness ==
    /\ pc = "done"
    /\ Unpinned
    /\ ~EnvSupports
    /\ ~DefaultSupports
    /\ listed = "listed"
    /\ Len(lines) >= 2
    /\ Supporting = {}
    /\ result = default_cargo

(* default cargo 1.65.0 stable, toolchains 1.66.0, 1.70.0-nightly, 1.68.0, *)
(* target Wasm                                                             *)
C3_Scenario ==
    /\ RustupReturned
    /\ target = "Wasm"
    /\ ~Bootstrap
    /\ Unwrap(default_cargo).version = Some(V_1_65_0)
    /\ Len(lines) = 3
    /\ Listed = {1, 2, 3}
    /\ LineCommand(1).version = Some(V_1_66_0)
    /\ LineCommand(2).version = Some(V_1_70_0_nightly)
    /\ LineCommand(3).version = Some(V_1_68_0)

(* C3, as claimed: the toolchain get_rustup_command returns has the        *)
(* greatest (major, minor, patch) among the listed toolchains that support *)
(* the target, the nightly flag playing no part; in the scenario the       *)
(* 1.70.0-nightly toolchain is returned.                                   *)
C3_NumericMaximum ==
    /\ (RustupReturned /\ rustup_ret # None) =>
           \A r \in Returned : \A j \in Qualifying :
               ~TripleLess(LineVersion(r), LineVersion(j))
    /\ C3_Scenario => Returned = {2}

(* C3, amended: the toolchain returned supports the target and has a       *)
(* probed version; it is a nightly only when no qualifying toolchain is    *)
(* stable, and no qualifying toolchain of its own kind (stable or nightly) *)
(* has a greater (major, minor, patch); in the scenario the 1.68.0         *)
(* toolchain is returned.                                                  *)
C3_StableThenNumericMaximum ==
    /\ (RustupReturned /\ rustup_ret # None) =>
           /\ Returned # {}
           /\ \A r \in Returned :
                  /\ r \in Qualifying
                  /\ \A j \in Qualifying :
                         /\ LineVersion(r).is_nightly => LineVersion(j).is_nightly
                         /\ LineVersion(j).is_nightly = LineVersion(r).is_nightly
                                => ~TripleLess(LineVersion(r), LineVersion(j))
    /\ C3_Scenario => Returned = {3}

C3_Witness == C3_Scenario /\ pc = "done" /\ Returned = {3}

(* C4: with no pin the CARGO cargo is returned when it supports the        *)
(* target; otherwise the default cargo when that supports it; `rustup      *)
(* toolchain list` is run, and a `rustup run` command returned, only when  *)
(* neither does.                                                           *)
C4_OrderedShortCircuit ==
    (Unpinned /\ Selecting) =>
        /\ (pc = "done" /\ EnvSupports) => result = env_cargo
        /\ (pc = "done" /\ ~EnvSupports /\ DefaultSupports) => result = default_cargo
        /\ listed # "not_run" => (~EnvSupports /\ ~DefaultSupports)
        /\ (pc = "done" /\ Unwrap(result).program = "rustup")
               => (~EnvSupports /\ ~DefaultSupports /\ listed = "listed")
        /\ (pc = "done" /\ ~EnvSupports /\ ~DefaultSupports) => listed # "not_run"

C4_Witness ==
    /\ pc = "done"
    /\ Unpinned
    /\ EnvSupports
    /\ DefaultSupports
    /\ env_cargo # default_cargo
    /\ result = env_cargo
    /\ listed = "not_run"

(* C5, as claimed: in every environment, CARGO unset included, the call    *)
(* never panics.                                                           *)
C5_NeverPanics == pc # "panic"

(* C5, amended: when CARGO is set (to a unicode value) the call never      *)
(* panics, whatever the probes and the toolchain listing give: it is at    *)
(* one of its steps, the loop within the listing, or has returned a        *)
(* command.                                                                *)
C5_NoPanicWhenCargoSet ==
    env.CARGO # None =>
        /\ pc \in {"start", "env_cargo", "select", "rustup_loop", "rustup_returned", "done"}
        /\ pc = "rustup_loop" => idx \in 1..(Len(lines) + 1)
        /\ pc = "done" => result # None

C5_Witness ==
    /\ pc = "done"
    /\ env.CARGO # None
    /\ listed = "listed"
    /\ \E i, j \in 1..Len(lines) : ~lines[i].utf8 /\ lines[j].utf8 /\ lines[j].fields = <<>>
    /\ Unwrap(result).version = None

(* C6, as claimed: when some listed toolchain supports the target,         *)
(* get_rustup_command returns one of the supporting toolchains.            *)
C6_AnySupportingIsReturned ==
    (RustupReturned /\ Supporting # {}) =>
        /\ rustup_ret # None
        /\ Returned # {}
        /\ Returned \subseteq Supporting

(* C6, amended: when some listed toolchain supports the target and has a   *)
(* probed version, get_rustup_command returns one of those; supporting     *)
(* toolchains whose version probe gave nothing are left out, and when all  *)
(* are such it returns None.                                               *)
C6_SupportingWithVersionIsReturned ==
    RustupReturned =>
        /\ Qualifying # {} =>
               /\ rustup_ret # None
               /\ Returned # {}
               /\ Returned \subseteq Qualifying
        /\ Qualifying = {} => rustup_ret = None

C6_Witness ==
    /\ RustupReturned
    /\ target = "Riscv"
    /\ \E i \in Supporting : i \notin Qualifying
    /\ \E i \in Listed \ Supporting : LineCommand(i).version = Some(V_1_68_0)
    /\ Returned # {}
    /\ Returned \subseteq Qualifying

(* C10: of the qualifying toolchains that compare equal to the returned    *)
(* (greatest) one, the one last in the listing is returned.                *)
C10_LastOfEqualsIsReturned ==
    (RustupReturned /\ rustup_ret # None) =>
        \A r \in Returned : \A j \in Qualifying :
            Version_cmp(LineVersion(j), LineVersion(r)) = "Equal" => j <= r

C10_Witness ==
    /\ RustupReturned
    /\ \E r \in Returned : \E j \in Qualifying :
           /\ j < r
           /\ Version_cmp(LineVersion(j), LineVersion(r)) = "Equal"

(***************************************************************************)
(* Properties of CargoCommand, under SpecCommand.                          *)
(***************************************************************************)
AtLeast_1_68_0(v) ==
    \/ v.major >= 2
    \/ v.major = 1 /\ v.minor >= 69
    \/ v.major = 1 /\ v.minor = 68 /\ v.patch >= 0

(* C7: supports(Wasm) is true when RUSTC_BOOTSTRAP is present; otherwise   *)
(* false without a probed version; otherwise true exactly when the version *)
(* is at least 1.68.0 or is a nightly.  The target list plays no part.     *)
C7_SupportsWasm ==
    (pc = "supports_returned" /\ target = "Wasm") =>
        Unwrap(supported) =
            IF env.RUSTC_BOOTSTRAP THEN TRUE
            ELSE IF Unwrap(cmd).version = None THEN FALSE
            ELSE \/ AtLeast_1_68_0(Unwrap(Unwrap(cmd).version))
                 \/ Unwrap(Unwrap(cmd).version).is_nightly

C7_Witness ==
    /\ pc = "supports_returned"
    /\ target = "Wasm"
    /\ ~env.RUSTC_BOOTSTRAP
    /\ Unwrap(cmd).version = Some(Version(1, 68, 0, FALSE))
    /\ Unwrap(cmd).target_list = None
    /\ supported = Some(TRUE)

(* C8: supports(Riscv) is true exactly when the probed target list is      *)
(* present and has the triple of the Riscv target as a whole element,      *)
(* whatever the version, the nightly flag and RUSTC_BOOTSTRAP.             *)
C8_SupportsRiscv ==
    (pc = "supports_returned" /\ target = "Riscv") =>
        Unwrap(supported) =
            /\ Unwrap(cmd).target_list # None
            /\ \E element \in Unwrap(Unwrap(cmd).target_list) :
                   element = <<rustc_target("Riscv")>>

C8_Witness ==
    /\ pc = "supports_returned"
    /\ target = "Riscv"
    /\ env.RUSTC_BOOTSTRAP
    /\ Unwrap(cmd).version = Some(Version(2, 70, 0, TRUE))
    /\ Unwrap(cmd).target_list =
           Some({<<"riscv32ema-unknown-none">>, <<"riscv32ema-unknown-none-elf-2">>})
    /\ supported = Some(FALSE)

Failed(p) == ~p.launched \/ p.status # 0 \/ ~p.utf8

(* C9, as claimed: a child process that cannot be launched, exits with a   *)
(* non-zero status or writes undecodable output gives no version and no    *)
(* target list.                                                            *)
C9_FailureIsNone ==
    pc = "command_built" =>
        /\ Failed(Unwrap(proc_version)) => Unwrap(cmd).version = None
        /\ Failed(Unwrap(proc_targets)) => Unwrap(cmd).target_list = None

(* C9, amended: a child process that cannot be launched or writes          *)
(* undecodable output gives no version and no target list; the exit status *)
(* is not looked at, so a process that was launched and wrote decodable    *)
(* output gives a present target list whatever its status: the set of the  *)
(* one empty string when it wrote nothing.                                 *)
C9_LaunchOrDecodeFailureIsNone ==
    pc = "command_built" =>
        /\ (~Unwrap(proc_version).launched \/ ~Unwrap(proc_version).utf8)
               => Unwrap(cmd).version = None
        /\ (~Unwrap(proc_targets).launched \/ ~Unwrap(proc_targets).utf8)
               => Unwrap(cmd).target_list = None
        /\ (Unwrap(proc_targets).launched /\ Unwrap(proc_targets).utf8)
               => Unwrap(cmd).target_list # None
        /\ (Unwrap(proc_targets).launched /\ Unwrap(proc_targets).utf8
              /\ Unwrap(proc_targets).stdout = <<>>)
               => Unwrap(cmd).target_list = Some({<<>>})

C9_Witness ==
    /\ pc = "command_built"
    /\ ~Unwrap(proc_version).launched
    /\ Unwrap(proc_targets) = Exited(1, TRUE, <<>>)
    /\ Unwrap(cmd).version = None
    /\ Unwrap(cmd).target_list = Some({<<>>})

====
